---- MODULE Spec2Model ----
(***************************************************************************)
(* Review workflow of content-review-mail: the mail review state kept by   *)
(* ContentReviewMail (scripts/content_review_mail.py), its polling loop,   *)
(* the instruction parser, and the review/publish entry points of          *)
(* AdvancedContentPipeline (content-pipeline/pipeline_v2.py).              *)
(*                                                                         *)
(* Text is modelled at token granularity.  A body is a sequence of lines,  *)
(* a line a sequence of tokens.  The Chinese phrases of the source are     *)
(* written in pinyin: fabu = publish, queren = confirm, caiyong = adopt,   *)
(* chongxinshengcheng = regenerate, chongxie = rewrite, zailai = again,    *)
(* xiugai = modify, youhua = optimise, tiaozheng = adjust, tiaoguo = skip, *)
(* jintianbufa = not today, quxiao = cancel, chakan = view, kankan = look, *)
(* quanwen = full text, houxuan = candidate, hao = number suffix,          *)
(* fangxiang = direction, cezhong = focus, zhongdian = emphasis,           *)
(* biru / liru = for example, jianyi = suggest, yijian = opinion,          *)
(* bimian = avoid, buyao = do not, wenti = issue, xuyao = need,            *)
(* yinggai = should, fwcolon = full-width colon, dunhao = list comma,      *)
(* xuanB = "choose B", nihao = hello, comma = full-width comma, dan = but, *)
(* zengjia = add, shuju = data, shicao = hands-on, gushi = story,          *)
(* taichang = too long, gai = change, jujue = reject, chongxin = anew.     *)
(***************************************************************************)
EXTENDS Integers, Sequences, FiniteSets, TLC

(***************************************************************************)
(* Bounds of the model.                                                    *)
(***************************************************************************)
MaxDates == 1
MaxMsgs == 2
MaxTime == 24
MaxHandle == 2
MaxRows == 2
MaxPublish == 2
MaxFeedback == 1
MaxLines == 2
MaxArticles == 2

(***************************************************************************)
(* Program constants.                                                      *)
(***************************************************************************)
BatchLimit == 10
ExpiryWindowHours == 24
HoursPerDay == 24
WorkflowCount == 3

\* Python's None in the three kinds of field: action, candidate, text
None == "None"
NoCandidate == -1
NoTime == -1
NoText == <<None>>

(***************************************************************************)
(* Text helpers.                                                           *)
(***************************************************************************)
Whitespace == {" ", "\n"}

\* a run of 5000 decimal digits, and the number it denotes (huge)
LongDigits == "digits5000"
Huge == 999999999

NumTokens == {"1", "2", "3", "7", LongDigits}

NumVal(tok) ==
    CASE tok = "1" -> 1
      [] tok = "2" -> 2
      [] tok = "3" -> 3
      [] tok = "7" -> 7
      [] tok = LongDigits -> Huge
      [] OTHER -> 0

\* str.lower() on one token
Lower(tok) ==
    CASE tok = "Publish" -> "publish"
      [] tok = "OK" -> "ok"
      [] tok = "SKIP" -> "skip"
      [] tok = "Candidate" -> "candidate"
      [] tok = "xuanB" -> "xuanb"
      [] OTHER -> tok

\* the keywords that occur as substrings of one token ("kw in text")
Substrings(tok) ==
    CASE tok = "review" -> {"review", "view"}
      [] tok = "book" -> {"book", "ok"}
      [] tok = "xiugai" -> {"xiugai", "gai"}
      [] tok = "chongxinshengcheng" -> {"chongxinshengcheng", "chongxin"}
      [] OTHER -> {tok}

\* the body as one token sequence, lines joined by "\n" (the inverse of split('\n'))
RECURSIVE Flatten(_)
Flatten(body) ==
    IF Len(body) = 0 THEN << >>
    ELSE IF Len(body) = 1 THEN body[1]
    ELSE body[1] \o <<"\n">> \o Flatten(Tail(body))

\* any(kw in text for kw in kws), text a token sequence
ContainsAny(toks, kws) ==
    \E i \in 1..Len(toks) : Substrings(toks[i]) \cap kws # {}

LowerAll(toks) == [i \in 1..Len(toks) |-> Lower(toks[i])]

\* str.strip() on one line
RECURSIVE LStrip(_)
LStrip(line) ==
    IF Len(line) > 0 /\ line[1] \in Whitespace THEN LStrip(Tail(line)) ELSE line

RECURSIVE RStrip(_)
RStrip(line) ==
    IF Len(line) > 0 /\ line[Len(line)] \in Whitespace
    THEN RStrip(SubSeq(line, 1, Len(line) - 1))
    ELSE line

Strip(line) == RStrip(LStrip(line))

(***************************************************************************)
(* ContentReviewMail.parse_instruction                                     *)
(***************************************************************************)
PublishKw == {"fabu", "publish", "queren", "ok", "caiyong"}
RegenerateKw == {"chongxinshengcheng", "regenerate", "chongxie", "zailai"}
ModifyKw == {"xiugai", "modify", "youhua", "tiaozheng"}
SkipKw == {"tiaoguo", "skip", "jintianbufa", "quxiao"}
ViewKw == {"chakan", "view", "kankan", "quanwen"}
SuggestKw == {"biru", "liru", "jianyi", "yijian", "bimian", "buyao"}
CritiqueKw == {"wenti", "jianyi", "yijian", "xuyao", "yinggai"}
DirectionTriggerKw == {"fangxiang", "cezhong"}
DirectionLineKw == {"fangxiang", "cezhong", "zhongdian"}

\* re.match(r'^\d+[.<dunhao>]\s*', line)
IsNumberedItem(line) ==
    Len(line) >= 2 /\ line[1] \in NumTokens /\ line[2] \in {".", "dunhao"}

\* does r'houxuan\s*(\d+)|candidate\s*(\d+)|(\d+)hao' match starting at p
NumberAfter(toks, p) ==
    {q \in (p + 1)..Len(toks) :
        /\ toks[q] \in NumTokens
        /\ \A k \in (p + 1)..(q - 1) : toks[k] \in Whitespace}

MatchesAt(toks, p) ==
    \/ toks[p] \in {"houxuan", "candidate"} /\ NumberAfter(toks, p) # {}
    \/ toks[p] \in NumTokens /\ p < Len(toks) /\ toks[p + 1] = "hao"

MatchValue(toks, p) ==
    IF toks[p] \in NumTokens THEN NumVal(toks[p])
    ELSE NumVal(toks[CHOOSE q \in NumberAfter(toks, p) : TRUE])

\* the digits captured by the leftmost match, "" when nothing matches
MatchDigits(toks) ==
    LET ps == {p \in 1..Len(toks) : MatchesAt(toks, p)}
        p0 == CHOOSE p \in ps : \A r \in ps : p <= r
    IN  IF ps = {} THEN ""
        ELSE IF toks[p0] \in NumTokens THEN toks[p0]
        ELSE toks[CHOOSE q \in NumberAfter(toks, p0) : TRUE]

\* re.search(...) followed by int(group(1) or group(2) or group(3)):
\* the leftmost match decides
ExtractCandidate(toks) ==
    LET ps == {p \in 1..Len(toks) : MatchesAt(toks, p)}
    IN  IF ps = {} THEN NoCandidate
        ELSE MatchValue(toks, CHOOSE p \in ps : \A r \in ps : p <= r)

FeedbackItems_NumberedOnly(body) ==
    LET stripped == [i \in 1..Len(body) |-> Strip(body[i])]
    IN  SelectSeq(stripped, LAMBDA l : IsNumberedItem(l))

\* the feedback buffer collected before the action branches
FeedbackItems(body) ==
    LET stripped == [i \in 1..Len(body) |-> Strip(body[i])]
    IN  SelectSeq(stripped,
                  LAMBDA l : IsNumberedItem(l) \/ ContainsAny(l, SuggestKw))

\* the feedback of the modify branch: unstripped lines with a critique token
CritiqueLines(body) == SelectSeq(body, LAMBDA l : ContainsAny(l, CritiqueKw))

\* s.split(sep, 1)[-1]
AfterFirst(line, sep) ==
    LET ps == {p \in 1..Len(line) : line[p] = sep}
    IN  IF ps = {} THEN line
        ELSE SubSeq(line, (CHOOSE p \in ps : \A r \in ps : p <= r) + 1, Len(line))

ExtractDirection(body) ==
    LET ls == {i \in 1..Len(body) : ContainsAny(body[i], DirectionLineKw)}
    IN  IF ~ContainsAny(Flatten(body), DirectionTriggerKw) \/ ls = {} THEN NoText
        ELSE Strip(AfterFirst(AfterFirst(body[CHOOSE i \in ls : \A r \in ls : i <= r],
                                         "fwcolon"), ":"))

parse_instruction_SkipFirst(body) ==
    LET content == LowerAll(Flatten(body))
        items == FeedbackItems(body)
        feedback == IF Len(items) > 0 THEN Flatten(items) ELSE NoText
        cand == ExtractCandidate(content)
    IN  IF ContainsAny(content, SkipKw)
        THEN [action |-> "skip", candidate |-> NoCandidate,
              direction |-> NoText, feedback |-> feedback]
        ELSE IF ContainsAny(content, PublishKw)
        THEN [action |-> "publish",
              candidate |-> IF cand # NoCandidate THEN cand
                            ELSE IF feedback # NoText THEN 1 ELSE NoCandidate,
              direction |-> NoText, feedback |-> feedback]
        ELSE IF ContainsAny(content, RegenerateKw)
        THEN [action |-> "regenerate", candidate |-> NoCandidate,
              direction |-> ExtractDirection(body), feedback |-> feedback]
        ELSE IF ContainsAny(content, ModifyKw)
        THEN [action |-> "modify", candidate |-> cand,
              direction |-> NoText, feedback |-> Flatten(CritiqueLines(body))]
        ELSE IF ContainsAny(content, ViewKw)
        THEN [action |-> "view", candidate |-> cand,
              direction |-> NoText, feedback |-> feedback]
        ELSE [action |-> None, candidate |-> NoCandidate,
              direction |-> NoText, feedback |-> feedback]

parse_instruction(body) ==
    LET content == LowerAll(Flatten(body))
        items == FeedbackItems(body)
        feedback == IF Len(items) > 0 THEN Flatten(items) ELSE NoText
        cand == ExtractCandidate(content)
    IN  IF ContainsAny(content, PublishKw)
        THEN [action |-> "publish",
              candidate |-> IF cand # NoCandidate THEN cand
                            ELSE IF feedback # NoText THEN 1 ELSE NoCandidate,
              direction |-> NoText, feedback |-> feedback]
        ELSE IF ContainsAny(content, RegenerateKw)
        THEN [action |-> "regenerate", candidate |-> NoCandidate,
              direction |-> ExtractDirection(body), feedback |-> feedback]
        ELSE IF ContainsAny(content, ModifyKw)
        THEN [action |-> "modify", candidate |-> cand,
              direction |-> NoText, feedback |-> Flatten(CritiqueLines(body))]
        ELSE IF ContainsAny(content, SkipKw)
        THEN [action |-> "skip", candidate |-> NoCandidate,
              direction |-> NoText, feedback |-> feedback]
        ELSE IF ContainsAny(content, ViewKw)
        THEN [action |-> "view", candidate |-> cand,
              direction |-> NoText, feedback |-> feedback]
        ELSE [action |-> None, candidate |-> NoCandidate,
              direction |-> NoText, feedback |-> feedback]

\* int(str) raises ValueError on more than 4300 digits when the interpreter
\* limits integer string conversion (CPython 3.11, the default), and returns
\* the number when it does not; the branches publish, modify and view call it
parse_instruction_raises(body, limited) ==
    /\ limited
    /\ parse_instruction(body).action \in {"publish", "modify", "view"}
    /\ MatchDigits(LowerAll(Flatten(body))) = LongDigits

(***************************************************************************)
(* check_replies_sendclaw.parse_reply                                      *)
(***************************************************************************)
NonWord == Whitespace \cup {".", ":", "fwcolon", "dunhao", "comma"}

\* the letter A, B or C that ends the upper-cased token, "" when there is none
ChoiceLetter(tok) ==
    CASE tok \in {"A", "a"} -> "A"
      [] tok \in {"B", "b", "xuanB"} -> "B"
      [] tok \in {"C", "c"} -> "C"
      [] OTHER -> ""

\* re.search(r'[xuan ze]?\s*([ABC])\b', body.upper()): the leftmost letter
\* A, B or C that is followed by a word boundary
ChoiceMatches(toks) ==
    {p \in 1..Len(toks) :
        /\ ChoiceLetter(toks[p]) # ""
        /\ (p = Len(toks) \/ toks[p + 1] \in NonWord)}

ReviseKw == {"xiugai", "gai"}
RejectKw == {"jujue", "buyao", "chongxin"}

parse_reply_SelectFirst(body) ==
    LET toks == Flatten(body)
        ps == ChoiceMatches(toks)
        selected == ps # {}
        letter == IF selected
                  THEN ChoiceLetter(toks[CHOOSE p \in ps : \A r \in ps : p <= r])
                  ELSE None
    IN  [action |-> IF selected THEN "select"
                    ELSE IF ContainsAny(toks, ReviseKw) THEN "revise"
                    ELSE IF ContainsAny(toks, RejectKw) THEN "reject" ELSE None,
         candidate |-> letter,
         feedback |-> Strip(toks)]

\* the three ifs run in turn, a later one overwriting the action
parse_reply(body) ==
    LET toks == Flatten(body)
        ps == ChoiceMatches(toks)
        selected == ps # {}
        letter == IF selected
                  THEN ChoiceLetter(toks[CHOOSE p \in ps : \A r \in ps : p <= r])
                  ELSE None
    IN  [action |-> IF ContainsAny(toks, RejectKw) THEN "reject"
                    ELSE IF ContainsAny(toks, ReviseKw) THEN "revise"
                    ELSE IF selected THEN "select" ELSE None,
         candidate |-> letter,
         feedback |-> Strip(toks)]

(***************************************************************************)
(* State.                                                                  *)
(***************************************************************************)
VARIABLES
    state,      \* self.state of the ContentReviewMail that runs the mail loop
    disk,       \* state/mail_state.json
    mailbox,    \* the IMAP mailbox; a message's id is its sequence number
    batch,      \* the emails returned by check_new_emails, not yet processed
    pc,         \* position of run_mail_loop
    now,        \* wall clock, in hours
    handled,    \* per message id: how often handle_instruction ran on it
    last,       \* the last operation and what it returned or logged
    files,      \* output/<date>/candidate_<i>.md, per date the candidates written
    articles,   \* rows of the articles table, counted per date
    feedback_history, \* FeedbackSolidifier.feedback_history, counted
    publisher,  \* the external publisher: successful runs per date, last run
    memory,     \* memory/published.json of ContentPipeline
    output      \* output/article_<date>.md of ContentPipeline, per date

vars == <<state, disk, mailbox, batch, pc, now, handled, last, files, articles,
          feedback_history, publisher, memory, output>>

mailVars == <<state, mailbox, batch, pc, handled>>
pipelineVars == <<files, articles, feedback_history, memory, output>>

Dates == 1..MaxDates

\* the days a pipeline can run on: the review dates and the day after
Days == 1..(MaxDates + 1)

\* the candidate list a sender passes (send_review.py passes two candidates)
Candidate(angle, q, u) ==
    [angle_type |-> angle, quality_score |-> q, uniqueness_score |-> u]
SendCandidateLists == { <<Candidate("analysis", 8, 8), Candidate("guide", 7, 7)>> }

(***************************************************************************)
(* A dict as a set of key/value entries.                                   *)
(***************************************************************************)
DictKeys(dict) == {e.key : e \in dict}

DictAppend(dict, key, val) == dict \cup {[key |-> key, val |-> val]}

\* dict[key] = val: the entry of the key is replaced
DictSet(dict, key, val) ==
    {e \in dict : e.key # key} \cup {[key |-> key, val |-> val]}

(***************************************************************************)
(* ContentReviewMail._load_state / _save_state                             *)
(***************************************************************************)
default_state ==
    [last_check_time |-> NoTime,
     pending_reviews |-> {},
     processed_emails |-> << >>,
     conversation_history |-> << >>]

\* the state file: whether it exists, whether its text is the complete JSON
\* document, cut short or empty, and the state a complete text stands for
NoFile == [exists |-> FALSE, text |-> "complete", content |-> default_state]

\* _load_state
load_state(file) == IF file.exists THEN file.content ELSE default_state

\* json.load raises JSONDecodeError on an empty or cut-short text
load_state_raises(file) == file.exists /\ file.text # "complete"

\* _save_state
save_state(st) == [exists |-> TRUE, text |-> "complete", content |-> st]

\* where a process killed inside _save_state had got to: before open(), after
\* open(..., 'w') truncated the file, after part of the text was written,
\* after all of it was written
SavePoints == {"before_open", "truncated", "writing", "written"}

\* the file a process killed inside _save_state leaves behind
interrupted_save(file, st, point) ==
    CASE point = "before_open" -> file
      [] point = "truncated" ->
            [exists |-> TRUE, text |-> "empty", content |-> default_state]
      [] point = "writing" ->
            [exists |-> TRUE, text |-> "partial", content |-> default_state]
      [] OTHER -> save_state(st)

(***************************************************************************)
(* Inbound mail.                                                           *)
(***************************************************************************)
SubjectKw == {"shenhe", "huifu", "Re:", "houxuan", "wenzhang", "fabu",
              "review", "candidate", "ceshi", "test"}

\* the fragments 'zayme' / 'shaw' of the lower-cased sender address
SenderFragments(addr) ==
    CASE addr = "ZaymeShaw199742@outlook.com" -> {"zayme", "shaw"}
      [] OTHER -> {}

is_review_reply(email) ==
    \/ ContainsAny(email.subject, SubjectKw)
    \/ SenderFragments(email.from) # {}

Operator == "ZaymeShaw199742@outlook.com"
Stranger == "news@example.com"
ReplySubject == <<"Re:", " ", "shenhe">>
OtherSubject == <<"newsletter">>

Email(subject, from, body) == [subject |-> subject, from |-> from, body |-> body]

Inbound ==
    { Email(ReplySubject, Operator, << <<"fabu", " ", "houxuan", "2">> >>),
      Email(OtherSubject, Operator, << <<"tiaoguo">> >>),
      Email(ReplySubject, Operator, << <<"chakan", " ", "houxuan", "1">> >>),
      Email(ReplySubject, Operator, << <<"nihao">> >>),
      Email(OtherSubject, Stranger, << <<"fabu", " ", "houxuan", "1">> >>) }

(***************************************************************************)
(* ContentReviewMail.check_new_emails                                      *)
(***************************************************************************)
\* server.search(None, 'UNSEEN'): the sequence numbers of the unseen messages
RECURSIVE Unseen(_, _)
Unseen(box, i) ==
    IF i > Len(box) THEN << >>
    ELSE (IF box[i].seen THEN << >> ELSE <<i>>) \o Unseen(box, i + 1)

\* msg_ids[-10:]
LastN(ids, n) ==
    IF Len(ids) <= n THEN ids ELSE SubSeq(ids, Len(ids) - n + 1, Len(ids))

Fetched(box) == LastN(Unseen(box, 1), BatchLimit)

check_new_emails(box, connected) ==
    IF connected
    THEN [i \in 1..Len(Fetched(box)) |->
            [id |-> Fetched(box)[i], email |-> box[Fetched(box)[i]].email]]
    ELSE << >>

\* fetching RFC822 sets the \Seen flag of the fetched messages
AfterFetch(box, connected) ==
    IF connected
    THEN [i \in 1..Len(box) |->
            IF \E k \in 1..Len(Fetched(box)) : Fetched(box)[k] = i
            THEN [box[i] EXCEPT !.seen = TRUE] ELSE box[i]]
    ELSE box

(***************************************************************************)
(* ContentReviewMail.handle_instruction: every branch only writes a log    *)
(* line; the state is returned as it was.                                  *)
(***************************************************************************)
Resolved(st) ==
    [st EXCEPT !.pending_reviews =
        {[key |-> e.key, val |-> [e.val EXCEPT !.status = "resolved"]] : e \in @}]

handle_instruction_ViewResolves(st, instruction) ==
    CASE instruction.action = "publish" ->
            [state |-> st, log |-> "log_publish", publish |-> NoCandidate]
      [] instruction.action = "regenerate" ->
            [state |-> st, log |-> "log_regenerate", publish |-> NoCandidate]
      [] instruction.action = "modify" ->
            [state |-> st, log |-> "log_modify", publish |-> NoCandidate]
      [] instruction.action = "skip" ->
            [state |-> st, log |-> "log_skip", publish |-> NoCandidate]
      [] instruction.action = "view" ->
            [state |-> Resolved(st), log |-> "log_view", publish |-> NoCandidate]
      [] OTHER ->
            [state |-> st, log |-> "none", publish |-> NoCandidate]

handle_instruction(st, instruction) ==
    CASE instruction.action = "publish" ->
            [state |-> st, log |-> "log_publish", publish |-> NoCandidate]
      [] instruction.action = "regenerate" ->
            [state |-> st, log |-> "log_regenerate", publish |-> NoCandidate]
      [] instruction.action = "modify" ->
            [state |-> st, log |-> "log_modify", publish |-> NoCandidate]
      [] instruction.action = "skip" ->
            [state |-> st, log |-> "log_skip", publish |-> NoCandidate]
      [] instruction.action = "view" ->
            [state |-> st, log |-> "log_view", publish |-> NoCandidate]
      [] OTHER ->
            [state |-> st, log |-> "none", publish |-> NoCandidate]

(***************************************************************************)
(* The external publisher (wenyan publish -f <candidate file>).            *)
(***************************************************************************)
NoRun == [date |-> 0, candidate |-> NoCandidate, content |-> << >>,
          outcome |-> "none"]

PublisherOutcomes == {"uploaded", "rejected", "timeout"}

\* one run of the publisher on a candidate file, with its outcome
PublisherRun(pub, date, num, content, outcome) ==
    [count |-> IF outcome = "uploaded"
               THEN [pub.count EXCEPT ![date] = @ + 1] ELSE pub.count,
     last |-> [date |-> date, candidate |-> num, content |-> <<content>>,
               outcome |-> outcome]]

Init ==
    /\ state = default_state
    /\ disk = NoFile
    /\ mailbox = << >>
    /\ batch = << >>
    /\ pc = "off"
    /\ now = 0
    /\ handled = [i \in 1..MaxMsgs |-> 0]
    /\ last = [op |-> "none", value |-> "none"]
    /\ files = [d \in Days |-> << >>]
    /\ articles = [d \in Days |-> 0]
    /\ feedback_history = 0
    /\ publisher = [count |-> [d \in Days |-> 0], last |-> NoRun]
    /\ memory = [articles |-> << >>, topics |-> << >>, pending_review |-> << >>]
    /\ output = [d \in Days |-> << >>]

(***************************************************************************)
(* ContentReviewMail.send_review_email, run by a sender process            *)
(* (send_review.py, main --send): a fresh ContentReviewMail loads the      *)
(* state file, and on a successful SMTP send records the pending review    *)
(* and saves.                                                              *)
(***************************************************************************)
PendingEntry(date, candidates, t) ==
    [date |-> date, candidates |-> candidates, sent_time |-> t,
     status |-> "waiting_reply"]

send_review_email(st, date, candidates, t, smtpOk) ==
    IF smtpOk
    THEN [state |-> [st EXCEPT !.pending_reviews =
                        DictSet(@, date, PendingEntry(date, candidates, t))],
          saved |-> TRUE, value |-> TRUE]
    ELSE [state |-> st, saved |-> FALSE, value |-> FALSE]

SendReview(date, candidates, smtpOk) ==
    /\ pc # "process"
    /\ ~load_state_raises(disk)
    /\ LET r == send_review_email(load_state(disk), date, candidates, now, smtpOk)
       IN  /\ disk' = IF r.saved THEN save_state(r.state) ELSE disk
           /\ last' = [op |-> "send_review_email", value |-> r.value]
    /\ UNCHANGED <<mailVars, now, pipelineVars, publisher>>

(***************************************************************************)
(* The environment of the mail loop.                                       *)
(***************************************************************************)
\* a message arrives in the mailbox
Deliver(email) ==
    /\ pc # "process"
    /\ Len(mailbox) < MaxMsgs
    /\ mailbox' = Append(mailbox, [email |-> email, seen |-> FALSE])
    /\ UNCHANGED <<state, disk, batch, pc, now, handled, last, pipelineVars,
                   publisher>>

\* a mail client clears the \Seen flag of a message (mark as unread)
MarkUnseen(i) ==
    /\ i \in 1..Len(mailbox)
    /\ pc # "process"
    /\ mailbox[i].seen
    /\ handled[i] < MaxHandle
    /\ mailbox' = [mailbox EXCEPT ![i].seen = FALSE]
    /\ UNCHANGED <<state, disk, batch, pc, now, handled, last, pipelineVars,
                   publisher>>

\* time passes
Tick ==
    /\ pc # "process"
    /\ now + ExpiryWindowHours <= MaxTime
    /\ now' = now + ExpiryWindowHours
    /\ UNCHANGED <<state, disk, mailbox, batch, pc, handled, last, pipelineVars,
                   publisher>>

(***************************************************************************)
(* ContentReviewMail.run_mail_loop                                         *)
(***************************************************************************)
\* ContentReviewMail() and --loop: the state file is loaded, the loop starts
StartLoop ==
    /\ pc \in {"off", "stopped"}
    /\ ~load_state_raises(disk)
    /\ state' = load_state(disk)
    /\ batch' = << >>
    /\ pc' = "sleep"
    /\ UNCHANGED <<disk, mailbox, now, handled, last, pipelineVars, publisher>>

\* time.sleep returns (or the loop was just entered):
\* emails = self.check_new_emails()
Poll(connected) ==
    /\ pc = "sleep"
    /\ batch' = check_new_emails(mailbox, connected)
    /\ mailbox' = AfterFetch(mailbox, connected)
    /\ pc' = "process"
    /\ UNCHANGED <<state, disk, now, handled, last, pipelineVars, publisher>>

\* one iteration of "for email in emails"; an exception raised in it leaves
\* the for loop for "except Exception": it is logged, the loop sleeps a minute
\* and polls again
ProcessEmail(limited) ==
    /\ pc = "process"
    /\ batch # << >>
    /\ LET msg == Head(batch)
           r == handle_instruction(state, parse_instruction(msg.email.body))
       IN  IF ~is_review_reply(msg.email)
           THEN /\ last' = [op |-> "not_a_reply", value |-> "none"]
                /\ batch' = Tail(batch)
                /\ UNCHANGED <<state, handled, publisher, pc>>
           ELSE IF parse_instruction_raises(msg.email.body, limited)
           THEN /\ last' = [op |-> "loop_exception", value |-> "ValueError"]
                /\ batch' = << >>
                /\ pc' = "sleep"
                /\ UNCHANGED <<state, handled, publisher>>
           ELSE /\ state' = r.state
                /\ handled' = [handled EXCEPT ![msg.id] = @ + 1]
                /\ last' = [op |-> "handle_instruction", value |-> r.log]
                /\ publisher' =
                     IF r.publish = NoCandidate THEN publisher
                     ELSE PublisherRun(publisher, 1, r.publish, r.publish, "uploaded")
                /\ batch' = Tail(batch)
                /\ pc' = pc
    /\ UNCHANGED <<disk, mailbox, now, pipelineVars>>

\* after the for loop: last_check_time is set and the state saved
FinishBatch ==
    /\ pc = "process"
    /\ batch = << >>
    /\ state' = [state EXCEPT !.last_check_time = now]
    /\ disk' = save_state(state')
    /\ pc' = "sleep"
    /\ UNCHANGED <<mailbox, batch, now, handled, last, pipelineVars, publisher>>

\* KeyboardInterrupt anywhere inside the try block: the loop breaks
Stop ==
    /\ pc \in {"process", "sleep"}
    /\ pc' = "stopped"
    /\ batch' = << >>
    /\ UNCHANGED <<state, disk, mailbox, now, handled, last, pipelineVars, publisher>>

\* the running mail loop, with a mail client that can mark messages unread
Next ==
    \/ \E d \in Dates, c \in SendCandidateLists, ok \in BOOLEAN : SendReview(d, c, ok)
    \/ \E e \in Inbound : Deliver(e)
    \/ \E i \in 1..MaxMsgs : MarkUnseen(i)
    \/ StartLoop
    \/ \E connected \in BOOLEAN : Poll(connected)
    \/ \E limited \in BOOLEAN : ProcessEmail(limited)
    \/ FinishBatch

Spec == Init /\ [][Next]_vars

\* the review state over time: sends on different days, the loop stopped and
\* started again, every message fetched once
ReviewNext ==
    \/ \E d \in Dates, c \in SendCandidateLists, ok \in BOOLEAN : SendReview(d, c, ok)
    \/ \E e \in Inbound : Deliver(e)
    \/ Tick
    \/ StartLoop
    \/ \E connected \in BOOLEAN : Poll(connected)
    \/ \E limited \in BOOLEAN : ProcessEmail(limited)
    \/ FinishBatch
    \/ Stop

ReviewSpec == Init /\ [][ReviewNext]_vars

\* the loop alone, with replies whose candidate number is a long digit run
LoopInbound ==
    { Email(ReplySubject, Operator, << <<"fabu", " ", "houxuan", LongDigits>> >>),
      Email(ReplySubject, Operator, << <<"fabu", " ", "houxuan", "2">> >>),
      Email(ReplySubject, Operator, << <<"tiaoguo", " ", "houxuan", LongDigits>> >>),
      Email(OtherSubject, Stranger, << <<"chakan", " ", LongDigits, "hao">> >>) }

LoopNext ==
    \/ \E e \in LoopInbound : Deliver(e)
    \/ StartLoop
    \/ \E connected \in BOOLEAN : Poll(connected)
    \/ \E limited \in BOOLEAN : ProcessEmail(limited)
    \/ FinishBatch

LoopSpec == Init /\ [][LoopNext]_vars

\* the sender process is killed inside the _save_state of send_review_email
CrashInSend(date, candidates, point) ==
    /\ pc # "process"
    /\ ~load_state_raises(disk)
    /\ LET r == send_review_email(load_state(disk), date, candidates, now, TRUE)
       IN  /\ disk' = interrupted_save(disk, r.state, point)
           /\ last' = [op |-> "killed_in_save", value |-> r.state]
    /\ UNCHANGED <<mailVars, now, pipelineVars, publisher>>

\* the loop process is killed inside the _save_state that follows the for loop
CrashInLoop(point) ==
    /\ pc = "process"
    /\ batch = << >>
    /\ state' = [state EXCEPT !.last_check_time = now]
    /\ disk' = interrupted_save(disk, state', point)
    /\ last' = [op |-> "killed_in_save", value |-> state']
    /\ pc' = "stopped"
    /\ UNCHANGED <<mailbox, batch, now, handled, pipelineVars, publisher>>

CrashInSave ==
    \/ \E d \in Dates, c \in SendCandidateLists, point \in SavePoints :
          CrashInSend(d, c, point)
    \/ \E point \in SavePoints : CrashInLoop(point)

\* ContentReviewMail() on a state file that json.load cannot read: the
\* constructor raises, neither the loop nor a sender gets started
ConstructFails ==
    /\ pc \in {"off", "stopped"}
    /\ load_state_raises(disk)
    /\ last' = [op |-> "load_state_raised", value |-> "JSONDecodeError"]
    /\ UNCHANGED <<mailVars, disk, now, pipelineVars, publisher>>

\* the mail loop and the sender, either of which can be killed while it saves
CrashNext ==
    \/ \E d \in Dates, c \in SendCandidateLists, ok \in BOOLEAN : SendReview(d, c, ok)
    \/ \E e \in LoopInbound : Deliver(e)
    \/ StartLoop
    \/ \E connected \in BOOLEAN : Poll(connected)
    \/ \E limited \in BOOLEAN : ProcessEmail(limited)
    \/ FinishBatch
    \/ CrashInSave
    \/ ConstructFails

CrashSpec == Init /\ [][CrashNext]_vars

(***************************************************************************)
(* main --check (content_review_mail.py) and process_replies                *)
(* (check_replies_sendclaw.py): one fetched message is parsed and the      *)
(* parsed instruction printed.                                             *)
(***************************************************************************)
\* the lines a reply body is made of
Phrases ==
    { << >>,
      <<" ">>,
      <<"fabu">>,
      <<"fabu", " ", "2">>,
      <<"Publish", " ", "2">>,
      <<"fabu", " ", "houxuan", "2">>,
      <<"fabu", " ", "houxuan", "7">>,
      <<"fabu", " ", "houxuan", LongDigits>>,
      <<"candidate", " ", "2">>,
      <<"xuanB">>,
      <<"fabu", "comma", "dan", "jianyi", "zengjia", "shuju">>,
      <<"chongxinshengcheng", " ", "fangxiang", "fwcolon", "shicao">>,
      <<"regenerate">>,
      <<"zhongdian", "fwcolon", "shuju">>,
      <<"xiugai", " ", "houxuan", "1">>,
      <<"wenti", "fwcolon", "taichang">>,
      <<"tiaoguo">>,
      <<"chakan", " ", "3", "hao">>,
      <<" ", "1", ".", "buyao", "gushi">>,
      <<"book">>,
      <<"nihao">> }

\* email_content.split('\n') has at least one line
Bodies == UNION { [1..n -> Phrases] : n \in 1..MaxLines }

\* the state in which one unread message has just been fetched
CheckInit ==
    /\ state = default_state
    /\ disk = NoFile
    /\ \E b \in Bodies, f \in {Operator, Stranger} :
          /\ mailbox = <<[email |-> Email(OtherSubject, f, b), seen |-> TRUE]>>
          /\ batch = <<[id |-> 1, email |-> Email(OtherSubject, f, b)]>>
    /\ pc = "check"
    /\ now = 0
    /\ handled = [i \in 1..MaxMsgs |-> 0]
    /\ last = [op |-> "none", value |-> "none"]
    /\ files = [d \in Days |-> << >>]
    /\ articles = [d \in Days |-> 0]
    /\ feedback_history = 0
    /\ publisher = [count |-> [d \in Days |-> 0], last |-> NoRun]
    /\ memory = [articles |-> << >>, topics |-> << >>, pending_review |-> << >>]
    /\ output = [d \in Days |-> << >>]

\* main --check: the body of a review reply is parsed and printed; an
\* exception of the parser ends the program with a traceback
CheckEmail(limited) ==
    /\ pc = "check"
    /\ last' = IF ~is_review_reply(batch[1].email)
               THEN [op |-> "not_a_reply", value |-> "none"]
               ELSE IF parse_instruction_raises(batch[1].email.body, limited)
               THEN [op |-> "parse_instruction_raised", value |-> "ValueError"]
               ELSE [op |-> "parse_instruction",
                     value |-> parse_instruction(batch[1].email.body)]
    /\ pc' = "checked"
    /\ UNCHANGED <<state, disk, mailbox, batch, now, handled, pipelineVars,
                   publisher>>

\* process_replies: every unread message is parsed and printed
ProcessReply ==
    /\ pc = "check"
    /\ last' = [op |-> "parse_reply", value |-> parse_reply(batch[1].email.body)]
    /\ pc' = "checked"
    /\ UNCHANGED <<state, disk, mailbox, batch, now, handled, pipelineVars,
                   publisher>>

CheckNext ==
    \/ \E limited \in BOOLEAN : CheckEmail(limited)
    \/ ProcessReply

CheckSpec == CheckInit /\ [][CheckNext]_vars

TypeOK ==
    /\ pc \in {"off", "process", "sleep", "stopped", "check", "checked"}
    /\ now \in 0..MaxTime
    /\ Len(mailbox) <= MaxMsgs
    /\ \A i \in 1..MaxMsgs : handled[i] \in 0..MaxHandle

(***************************************************************************)
(* AdvancedContentPipeline (pipeline_v2.py).  The pipeline state is the    *)
(* record [files, articles, feedback_history, publisher].                  *)
(***************************************************************************)
PipelineState ==
    [files |-> files, articles |-> articles,
     feedback_history |-> feedback_history, publisher |-> publisher]

\* datetime.now().strftime('%Y%m%d'), dates numbered from 1
Today == now \div HoursPerDay + 1

\* the three angles of MultiCandidateGenerator, and what a generation run returns
Angles == <<"practice", "depth", "story">>
\* one candidate of a run, the first or the last, scores lower on quality and
\* higher on uniqueness
GenCandidateLists ==
    { [i \in 1..WorkflowCount |->
          IF i = k THEN Candidate(Angles[i], 6, 9) ELSE Candidate(Angles[i], 8, 6)] :
        k \in {1, WorkflowCount} }

\* the position of max(candidates, key): the first candidate with the largest key
BestBySum(cands) ==
    CHOOSE i \in 1..Len(cands) :
        /\ \A j \in 1..Len(cands) :
              cands[j].quality_score + cands[j].uniqueness_score
                 <= cands[i].quality_score + cands[i].uniqueness_score
        /\ \A j \in 1..(i - 1) :
              cands[j].quality_score + cands[j].uniqueness_score
                 < cands[i].quality_score + cands[i].uniqueness_score

\* _publish_candidate: False when the candidate file is missing, else the
\* publisher runs and only its "uploaded" output counts as success
publish_candidate_AlwaysTrue(ps, date, num, outcome) ==
    IF ~(num \in 1..Len(ps.files[date]))
    THEN [ps |-> ps, value |-> FALSE, invoked |-> FALSE]
    ELSE [ps |-> [ps EXCEPT !.publisher =
                     PublisherRun(@, date, num, ps.files[date][num], outcome)],
          value |-> TRUE, invoked |-> TRUE]

publish_candidate(ps, date, num, outcome) ==
    IF ~(num \in 1..Len(ps.files[date]))
    THEN [ps |-> ps, value |-> FALSE, invoked |-> FALSE]
    ELSE [ps |-> [ps EXCEPT !.publisher =
                     PublisherRun(@, date, num, ps.files[date][num], outcome)],
          value |-> (outcome = "uploaded"), invoked |-> TRUE]

\* run_multi_candidate_workflow; in is the behaviour of the collaborators:
\* news (items collected), gen ("ok", "raise"), candidates, db (insert works),
\* mail (SMTP send works), outcome (of the publisher)
run_multi_candidate_workflow_StoresPartial(ps, today, in) ==
    IF ~in.news
    THEN [ps |-> ps, value |-> FALSE, notified |-> "none", log |-> "no_news"]
    ELSE IF in.gen = "raise"
    THEN [ps |-> [ps EXCEPT !.articles[today] = @ + 1,
                            !.files[today] = <<Candidate(Angles[1], 8, 6)>>],
          value |-> FALSE, notified |-> "none", log |-> "failed_generation"]
    ELSE IF Len(in.candidates) = 0
    THEN [ps |-> ps, value |-> FALSE, notified |-> "none",
          log |-> "no_candidates"]
    ELSE IF ~in.db
    THEN [ps |-> ps, value |-> FALSE, notified |-> "none", log |-> "failed_db"]
    ELSE LET saved == [ps EXCEPT !.articles[today] = @ + 1,
                                 !.files[today] = in.candidates]
             pushed == publish_candidate(saved, today, BestBySum(in.candidates),
                                         in.outcome)
         IN  [ps |-> pushed.ps, value |-> TRUE,
              notified |-> IF in.mail THEN "email" ELSE "console",
              log |-> "done"]

\* log is the line the run ends with
run_multi_candidate_workflow(ps, today, in) ==
    IF ~in.news
    THEN [ps |-> ps, value |-> FALSE, notified |-> "none", log |-> "no_news"]
    ELSE IF in.gen = "raise"
    THEN [ps |-> ps, value |-> FALSE, notified |-> "none",
          log |-> "failed_generation"]
    ELSE IF Len(in.candidates) = 0
    THEN [ps |-> ps, value |-> FALSE, notified |-> "none",
          log |-> "no_candidates"]
    ELSE IF ~in.db
    THEN [ps |-> ps, value |-> FALSE, notified |-> "none", log |-> "failed_db"]
    ELSE LET saved == [ps EXCEPT !.articles[today] = @ + 1,
                                 !.files[today] = in.candidates]
             pushed == publish_candidate(saved, today, BestBySum(in.candidates),
                                         in.outcome)
         IN  [ps |-> pushed.ps, value |-> TRUE,
              notified |-> IF in.mail THEN "email" ELSE "console",
              log |-> "done"]

Inputs(news, gen, candidates, db, mail, outcome) ==
    [news |-> news, gen |-> gen, candidates |-> candidates, db |-> db,
     mail |-> mail, outcome |-> outcome]

\* the runs that differ: each collaborator failing in turn, and the full runs
WorkflowInputs ==
    { Inputs(FALSE, "ok", << >>, TRUE, TRUE, "uploaded"),
      Inputs(TRUE, "raise", << >>, TRUE, TRUE, "uploaded"),
      Inputs(TRUE, "ok", << >>, TRUE, TRUE, "uploaded") }
    \cup { Inputs(TRUE, "ok", CHOOSE c \in GenCandidateLists : TRUE, FALSE, TRUE,
                   "uploaded") }
    \cup { Inputs(TRUE, "ok", c, TRUE, m, o) :
             c \in GenCandidateLists, m \in BOOLEAN, o \in PublisherOutcomes }

\* _regenerate_with_direction: the request is recorded as feedback, then the
\* workflow runs again (for today, without the direction)
regenerate_with_direction(ps, date, today, in) ==
    run_multi_candidate_workflow(
        [ps EXCEPT !.feedback_history = @ + 1], today, in)

\* _record_and_solidify_feedback
record_and_solidify_feedback(ps) ==
    [ps |-> [ps EXCEPT !.feedback_history = @ + 1], value |-> TRUE]

\* process_review(date, action, **kwargs)
process_review(ps, date, action, num, today, in) ==
    CASE action = "select" -> publish_candidate(ps, date, num, in.outcome)
      [] action = "regenerate" ->
            LET r == regenerate_with_direction(ps, date, today, in)
            IN  [ps |-> r.ps, value |-> r.value, invoked |-> r.value]
      [] action = "feedback" ->
            [ps |-> record_and_solidify_feedback(ps).ps, value |-> TRUE,
             invoked |-> FALSE]
      [] action = "skip" -> [ps |-> ps, value |-> TRUE, invoked |-> FALSE]
      [] OTHER -> [ps |-> ps, value |-> FALSE, invoked |-> FALSE]

SetPipeline(ps) ==
    /\ files' = ps.files
    /\ articles' = ps.articles
    /\ feedback_history' = ps.feedback_history
    /\ publisher' = ps.publisher

WithinBounds(ps) ==
    /\ \A d \in Days : ps.articles[d] <= MaxRows /\ ps.publisher.count[d] <= MaxPublish
    /\ ps.feedback_history <= MaxFeedback

\* pipeline_v2.py --run
RunWorkflow(in) ==
    /\ Today \in Days
    /\ LET r == run_multi_candidate_workflow(PipelineState, Today, in)
       IN  /\ WithinBounds(r.ps)
           /\ SetPipeline(r.ps)
           /\ last' = [op |-> "workflow", value |-> r.value, notified |-> r.notified,
                        log |-> r.log]
    /\ UNCHANGED <<mailVars, disk, now, memory, output>>

ReviewActions == {"select", "regenerate", "feedback", "skip", "approve"}

\* pipeline_v2.py --select / --regenerate / --feedback, and process_review
\* called with any other action
ProcessReview(date, action, num, in) ==
    /\ Today \in Days
    /\ LET r == process_review(PipelineState, date, action, num, Today, in)
       IN  /\ WithinBounds(r.ps)
           /\ SetPipeline(r.ps)
           /\ last' = [op |-> action, value |-> r.value, invoked |-> r.invoked]
    /\ UNCHANGED <<mailVars, disk, now, memory, output>>

(***************************************************************************)
(* ContentPipelineV3 (pipeline_v3.py).                                     *)
(***************************************************************************)
\* what generate_articles returns: one candidate per topic design, scored by
\* _score_quality (the uniqueness score is a fixed number)
V3CandidateLists ==
    { <<Candidate("practice", 6, 7), Candidate("depth", 8, 7)>> }

\* the position of max(candidates, key=quality_score)
BestByQuality(cands) ==
    CHOOSE i \in 1..Len(cands) :
        /\ \A j \in 1..Len(cands) : cands[j].quality_score <= cands[i].quality_score
        /\ \A j \in 1..(i - 1) : cands[j].quality_score < cands[i].quality_score

\* send_review_and_push: the candidate files are written, the article row
\* inserted (an exception here ends the run), the review email sent and its
\* result dropped, the best candidate handed to the publisher
send_review_and_push(ps, today, in) ==
    LET written == [ps EXCEPT !.files[today] = in.candidates]
        saved == [written EXCEPT !.articles[today] = @ + 1]
        best == BestByQuality(in.candidates)
    IN  IF ~in.db THEN [ps |-> written, raised |-> TRUE, notified |-> "none"]
        ELSE [ps |-> [saved EXCEPT !.publisher =
                         PublisherRun(@, today, best, in.candidates[best],
                                      in.outcome)],
              raised |-> FALSE,
              notified |-> IF in.mail THEN "email" ELSE "none"]

\* ContentPipelineV3.run; in.news: literature was collected, in.gen: "raise"
\* when the LLM call of generate_articles raises, in.candidates: the generated
\* articles, one per topic design (none when the topic design failed)
run_v3(ps, today, in) ==
    IF ~in.news
    THEN [ps |-> ps, value |-> FALSE, notified |-> "none", log |-> "no_news"]
    ELSE IF in.gen = "raise"
    THEN [ps |-> ps, value |-> FALSE, notified |-> "none",
          log |-> "failed_generation"]
    ELSE IF Len(in.candidates) = 0
    THEN [ps |-> ps, value |-> FALSE, notified |-> "none", log |-> "no_topics"]
    ELSE LET r == send_review_and_push(ps, today, in)
         IN  [ps |-> r.ps, value |-> ~r.raised, notified |-> r.notified,
              log |-> IF r.raised THEN "failed_db" ELSE "done"]

V3Inputs ==
    { Inputs(FALSE, "ok", << >>, TRUE, TRUE, "uploaded"),
      Inputs(TRUE, "raise", << >>, TRUE, TRUE, "uploaded"),
      Inputs(TRUE, "ok", << >>, TRUE, TRUE, "uploaded") }
    \cup { Inputs(TRUE, "ok", c, FALSE, TRUE, "uploaded") : c \in V3CandidateLists }
    \cup { Inputs(TRUE, "ok", c, TRUE, m, o) :
             c \in V3CandidateLists, m \in BOOLEAN, o \in PublisherOutcomes }

\* pipeline_v3.py
RunV3(in) ==
    /\ Today \in Days
    /\ LET r == run_v3(PipelineState, Today, in)
       IN  /\ WithinBounds(r.ps)
           /\ SetPipeline(r.ps)
           /\ last' = [op |-> "run_v3", value |-> r.value, notified |-> r.notified,
                        log |-> r.log]
    /\ UNCHANGED <<mailVars, disk, now, memory, output>>

\* the runs a regeneration request is followed through: one candidate list
RegenerateInputs ==
    { in \in WorkflowInputs :
        in.candidates \in {<< >>, CHOOSE c \in GenCandidateLists : TRUE} }

PipelineNext ==
    \/ \E d \in Dates, c \in SendCandidateLists, ok \in BOOLEAN : SendReview(d, c, ok)
    \/ \E in \in WorkflowInputs : RunWorkflow(in)
    \/ \E in \in V3Inputs : RunV3(in)
    \/ \E d \in Dates, n \in 1..(WorkflowCount + 1), o \in PublisherOutcomes :
          ProcessReview(d, "select", n, Inputs(TRUE, "ok", << >>, TRUE, TRUE, o))
    \/ \E d \in Dates, in \in RegenerateInputs : ProcessReview(d, "regenerate", 1, in)
    \/ \E d \in Dates, a \in ReviewActions \ {"select", "regenerate"} :
          ProcessReview(d, a, 1, Inputs(TRUE, "ok", << >>, TRUE, TRUE, "uploaded"))

PipelineSpec == Init /\ [][PipelineNext]_vars

(***************************************************************************)
(* ContentPipeline (pipeline.py).                                          *)
(***************************************************************************)
Article == "article"

\* the record step4_save and run append to the memory
MemoryItem(today, status) ==
    [date |-> today, topic |-> "topic", path |-> today, status |-> status]

\* step5_publish: wenyan runs on the article file; its output is returned
\* when it reports an upload, None when it does not or when the call raises
step5_publish(pub, today, article, outcome) ==
    [publisher |-> PublisherRun(pub, today, NoCandidate, article, outcome),
     value |-> IF outcome = "uploaded" THEN "stdout" ELSE None]

\* ContentPipeline.run; in.news: step1_collect found something, in.gen:
\* "raise" when an LLM call of step2_analyze or step3_write raises, in.auto:
\* auto_publish or skip_review
run_v1(mem, pub, out, today, in) ==
    IF ~in.news \/ in.gen = "raise"
    THEN [memory |-> mem, publisher |-> pub, output |-> out, value |-> FALSE]
    ELSE LET saved == [mem EXCEPT !.pending_review =
                          Append(@, MemoryItem(today, "pending_review"))]
             status == IF in.auto THEN "published" ELSE "pending_review"
         IN  [memory |-> [saved EXCEPT !.articles =
                             Append(@, MemoryItem(today, status))],
              publisher |-> IF in.auto
                            THEN step5_publish(pub, today, Article, in.outcome).publisher
                            ELSE pub,
              output |-> [out EXCEPT ![today] = <<Article>>],
              value |-> TRUE]

V1Inputs ==
    [news : BOOLEAN, gen : {"ok", "raise"}, auto : BOOLEAN,
     outcome : PublisherOutcomes]

\* pipeline.py, with or without --auto-publish
RunV1(in) ==
    /\ Today \in Days
    /\ LET r == run_v1(memory, publisher, output, Today, in)
       IN  /\ Len(r.memory.articles) <= MaxArticles
           /\ \A d \in Days : r.publisher.count[d] <= MaxPublish
           /\ memory' = r.memory
           /\ publisher' = r.publisher
           /\ output' = r.output
           /\ last' = [op |-> "run_v1", value |-> r.value]
    /\ UNCHANGED <<mailVars, disk, now, files, articles, feedback_history>>

\* review_and_publish(article_date, action)
review_and_publish(pub, out, date, action, outcome) ==
    IF out[date] = << >>
    THEN [publisher |-> pub, value |-> FALSE]
    ELSE IF action = "publish"
    THEN LET r == step5_publish(pub, date, out[date][1], outcome)
         IN  [publisher |-> r.publisher, value |-> r.value # None]
    ELSE [publisher |-> pub, value |-> action = "skip"]

\* pipeline.py --review <date> --action publish|skip
ReviewAndPublish(date, action, outcome) ==
    /\ LET r == review_and_publish(publisher, output, date, action, outcome)
       IN  /\ \A d \in Days : r.publisher.count[d] <= MaxPublish
           /\ publisher' = r.publisher
           /\ last' = [op |-> "review_and_publish", value |-> r.value]
    /\ UNCHANGED <<mailVars, disk, now, files, articles, feedback_history,
                   memory, output>>

V1Next ==
    \/ Tick
    \/ \E in \in V1Inputs : RunV1(in)
    \/ \E d \in Days, a \in {"publish", "skip"}, o \in PublisherOutcomes :
          ReviewAndPublish(d, a, o)

V1Spec == Init /\ [][V1Next]_vars

\* runs and regeneration requests over two days
RegenerateNext ==
    \/ Tick
    \/ \E d \in Dates, c \in SendCandidateLists, ok \in BOOLEAN : SendReview(d, c, ok)
    \/ \E in \in RegenerateInputs : RunWorkflow(in)
    \/ \E d \in Days, in \in RegenerateInputs : ProcessReview(d, "regenerate", 1, in)

RegenerateSpec == Init /\ [][RegenerateNext]_vars

(***************************************************************************)
(* Properties.                                                             *)
(***************************************************************************)
WaitingEntries(st, d) ==
    {e \in st.pending_reviews : e.key = d /\ e.val.status = "waiting_reply"}

Waiting(st, d) == WaitingEntries(st, d) # {}

SomeWaiting(st) == \E d \in Dates : Waiting(st, d)

\* the loop handles the next email of the batch, a review reply with this action
HandlesReply(actions) ==
    /\ pc = "process"
    /\ pc' = "process"
    /\ batch # << >>
    /\ batch' = Tail(batch)
    /\ is_review_reply(Head(batch).email)
    /\ parse_instruction(Head(batch).email.body).action \in actions

\* C1: the review state, in the loop's memory and in the state file, holds at
\* most one ReviewRequest with status waiting_reply per cycle date key
C1_AtMostOneWaiting ==
    \A d \in Dates :
        /\ Cardinality(WaitingEntries(state, d)) <= 1
        /\ Cardinality(WaitingEntries(load_state(disk), d)) <= 1

\* a date was sent for review on two different days, the loop still holding
\* the first request, and a reply has been handled
C1_Witness ==
    \E d \in Dates :
        /\ \E e \in WaitingEntries(state, d) : e.val.sent_time = 0
        /\ \E e \in WaitingEntries(load_state(disk), d) : e.val.sent_time > 0
        /\ \E i \in 1..MaxMsgs : handled[i] > 0

\* C2: a publish reply handled while a request is waiting resolves a request;
\* handled when requests exist but none is waiting, it is rejected with
\* AlreadyResolved
C2_ResolutionGuarded ==
    [][(HandlesReply({"publish"}) /\ state.pending_reviews # {}) =>
          IF SomeWaiting(state)
          THEN \E d \in Dates : Waiting(state, d) /\ ~Waiting(state', d)
          ELSE last'.value = "AlreadyResolved"]_vars

\* C3: right after a select (publish) that succeeded for a date, another
\* select does not run the publisher successfully for that date again
C3_PublishOnce ==
    [][(last.op = "select" /\ last.value = TRUE /\ last'.op = "select") =>
          publisher'.count[publisher.last.date]
             = publisher.count[publisher.last.date]]_vars

\* C4: a message on which handle_instruction has run is recorded in the
\* processed_emails of the state file
C4_LoggedBeforeAction ==
    \A i \in 1..MaxMsgs :
        handled[i] > 0 =>
            \E k \in 1..Len(load_state(disk).processed_emails) :
                load_state(disk).processed_emails[k] = i

\* C5: no message id is handled more than once
C5_HandledAtMostOnce == \A i \in 1..MaxMsgs : handled[i] <= 1

\* C6: after a select of candidate i that the publisher accepted, the review
\* request of that date, if there is one, is resolved with chosen index i
C6_PublishResolves ==
    (last.op = "select" /\ last.value = TRUE) =>
        \A e \in load_state(disk).pending_reviews :
            e.key = publisher.last.date =>
                /\ e.val.status = "resolved"
                /\ "chosen" \in DOMAIN e.val
                /\ e.val.chosen = publisher.last.candidate

\* C7: a select during which the publisher did not succeed (missing candidate
\* file, rejected upload, timeout) returns False and leaves the state file, and
\* with it every waiting_reply request, as it was
C7_PublishFailureSurfaced ==
    [][(last'.op = "select" /\ publisher'.count = publisher.count) =>
          (last'.value = FALSE /\ disk' = disk)]_vars

\* a select ran the publisher, which timed out or rejected, for a date whose
\* request is waiting_reply
C7_Witness ==
    /\ last.op = "select"
    /\ last.value = FALSE
    /\ last.invoked
    /\ publisher.last.outcome \in {"rejected", "timeout"}
    /\ Waiting(load_state(disk), publisher.last.date)

\* C8: a skip reply handled while a request is waiting resolves a request and
\* does not run the publisher
C8_SkipResolves ==
    [][(HandlesReply({"skip"}) /\ SomeWaiting(state)) =>
          /\ \E d \in Dates : Waiting(state, d) /\ ~Waiting(state', d)
          /\ publisher' = publisher]_vars

\* C9: handling a view reply or a reply with no recognised action changes
\* neither the review state (memory and file) nor the publisher
C9_ViewUnknownNoTransition ==
    [][HandlesReply({"view", None}) =>
          /\ state' = state
          /\ disk' = disk
          /\ publisher' = publisher]_vars

\* a view or unrecognised reply was handled while a request was waiting
C9_Witness ==
    /\ pc = "process"
    /\ last.op = "handle_instruction"
    /\ last.value \in {"log_view", "none"}
    /\ SomeWaiting(state)

\* C10: once the loop has completed a poll at least 24 hours after a request
\* was sent, the request is no longer waiting_reply
C10_ExpiryResolves ==
    \A e \in state.pending_reviews :
        (pc = "sleep" /\ state.last_check_time >= e.val.sent_time + ExpiryWindowHours)
            => e.val.status # "waiting_reply"

(***************************************************************************)
(* Properties of sending the review notification.                          *)
(***************************************************************************)
PendingOnDisk(file) == load_state(file).pending_reviews

\* C11: a successful send_review_email leaves exactly one waiting_reply
\* request for a date and adds entries for that date only; a pipeline run
\* (pipeline_v2, pipeline_v3) whose review email was sent leaves exactly one
\* waiting_reply request for the day of the run
C11_SendCreatesRequest ==
    [][/\ (last'.op = "send_review_email" /\ last'.value = TRUE) =>
             \E d \in Dates :
                 /\ Cardinality(WaitingEntries(load_state(disk'), d)) = 1
                 /\ \A e \in PendingOnDisk(disk') \ PendingOnDisk(disk) : e.key = d
       /\ (last'.op \in {"workflow", "run_v3"} /\ last'.notified = "email") =>
             Cardinality(WaitingEntries(load_state(disk'), Today)) = 1]_vars

\* C12: a send_review_email that fails returns False and leaves the state file
\* as it was; a pipeline run that gets as far as the review email and cannot
\* send it prints the console notification and writes no request
C12_SendFailureFallsBack ==
    [][/\ (last'.op = "send_review_email" /\ last'.value = FALSE) => disk' = disk
       /\ (last'.op \in {"workflow", "run_v3"} /\ last'.value = TRUE
              /\ last'.notified # "email") =>
             (last'.notified = "console" /\ disk' = disk)]_vars

(***************************************************************************)
(* Properties of the parsers.                                              *)
(***************************************************************************)
\* the body of the message that was parsed, and its lower-cased text
ParsedBody == batch[1].email.body

ParsedContent == LowerAll(Flatten(ParsedBody))

Parsed(op) == pc = "checked" /\ last.op = op

\* the actions in the order of their priority, with their trigger tokens
ActionRank == <<"publish", "regenerate", "modify", "skip", "view">>

TriggerKw == <<PublishKw, RegenerateKw, ModifyKw, SkipKw, ViewKw>>

Triggered(content) ==
    {i \in 1..Len(ActionRank) : ContainsAny(content, TriggerKw[i])}

PriorityAction(content) ==
    IF Triggered(content) = {} THEN None
    ELSE ActionRank[CHOOSE i \in Triggered(content) :
                       \A j \in Triggered(content) : i <= j]

\* the feedback collected before any branch runs
CollectedFeedback(body) ==
    IF Len(FeedbackItems(body)) > 0 THEN Flatten(FeedbackItems(body)) ELSE NoText

\* C13: the parsed action is the first of publish, regenerate, modify, skip,
\* view whose trigger tokens occur in the lower-cased body (None when there is
\* none), and the fields that only another branch sets keep their initial
\* value: direction outside regenerate, candidate outside publish / modify /
\* view, the critique lines outside modify
C13_ParsePriority ==
    Parsed("parse_instruction") =>
        LET a == PriorityAction(ParsedContent)
            r == last.value
        IN  /\ r.action = a
            /\ (a # "regenerate" => r.direction = NoText)
            /\ (a \notin {"publish", "modify", "view"} => r.candidate = NoCandidate)
            /\ (a # "modify" => r.feedback = CollectedFeedback(ParsedBody))

\* a body with the tokens of publish and of skip was parsed to publish
C13_Witness ==
    /\ Parsed("parse_instruction")
    /\ {1, 4} \subseteq Triggered(ParsedContent)
    /\ last.value.action = "publish"

\* the candidates of a cycle are numbered 1..WorkflowCount
ValidIndex == 1..WorkflowCount

\* C14: no parsed instruction carries a candidate index outside the cycle's
\* 1..n (n = 3), and a body whose candidate number is outside it parses to no
\* action
C14_IndexInRange ==
    Parsed("parse_instruction") =>
        /\ last.value.candidate \in ValidIndex \cup {NoCandidate}
        /\ (ExtractCandidate(ParsedContent) \notin ValidIndex \cup {NoCandidate}
               => last.value.action = None)

\* a one-line body: a publish token, a blank, a bare number of a candidate
BareNumberReply(body) ==
    /\ Len(body) = 1
    /\ Len(body[1]) = 3
    /\ Lower(body[1][1]) \in PublishKw
    /\ body[1][2] = " "
    /\ body[1][3] \in NumTokens
    /\ NumVal(body[1][3]) \in ValidIndex

\* C15: "fabu 2" / "publish 2" parses to publish with candidate 2
C15_BareNumberPublish ==
    (Parsed("parse_instruction") /\ BareNumberReply(ParsedBody)) =>
        /\ last.value.action = "publish"
        /\ last.value.candidate = NumVal(ParsedBody[1][3])

\* the replies that only name the second candidate
NamesSecond == { << <<"candidate", " ", "2">> >>, << <<"xuanB">> >> }

LetterIndex(letter) ==
    CASE letter = "A" -> 1
      [] letter = "B" -> 2
      [] letter = "C" -> 3
      [] OTHER -> 0

\* C16: "candidate 2" and "choose B" are read as the choice of candidate 2:
\* publish with candidate 2 by parse_instruction, select of the second
\* candidate by parse_reply
C16_NamedCandidatePublishes ==
    (pc = "checked" /\ ParsedBody \in NamesSecond) =>
        /\ last.op = "parse_instruction" =>
              last.value.action = "publish" /\ last.value.candidate = 2
        /\ last.op = "parse_reply" =>
              last.value.action = "select" /\ LetterIndex(last.value.candidate) = 2

\* every line is empty or whitespace
Blank(body) ==
    \A i \in 1..Len(body) : \A k \in 1..Len(body[i]) : body[i][k] \in Whitespace

\* C17: parsing the body of a review reply never raises, and an empty or
\* whitespace-only body gives no action, candidate, direction or feedback
C17_BlankIsUnknownNeverRaises ==
    (pc = "checked" /\ last.op \in {"parse_instruction", "parse_instruction_raised"}) =>
        /\ last.op = "parse_instruction"
        /\ Blank(ParsedBody) =>
              last.value = [action |-> None, candidate |-> NoCandidate,
                            direction |-> NoText, feedback |-> NoText]

\* x occurs in y as a contiguous run
IsRunOf(x, y) ==
    \E k \in 0..(Len(y) - Len(x)) : SubSeq(y, k + 1, k + Len(x)) = x

\* C18: a body with a publish token and a line carrying a suggestion token
\* parses to publish, the stripped suggestion line is part of the feedback,
\* and without a candidate number the candidate is 1
C18_PublishKeepsSuggestion ==
    (/\ Parsed("parse_instruction")
     /\ 1 \in Triggered(ParsedContent)
     /\ \E i \in 1..Len(ParsedBody) : ContainsAny(ParsedBody[i], SuggestKw)) =>
        /\ last.value.action = "publish"
        /\ last.value.feedback # NoText
        /\ \A i \in 1..Len(ParsedBody) :
              ContainsAny(ParsedBody[i], SuggestKw) =>
                  IsRunOf(Strip(ParsedBody[i]), last.value.feedback)
        /\ (ExtractCandidate(ParsedContent) = NoCandidate => last.value.candidate = 1)

\* "fabu, dan jianyi zengjia shuju" was parsed: publish, candidate 1, the line
\* as feedback
C18_Witness ==
    /\ Parsed("parse_instruction")
    /\ ParsedBody = << <<"fabu", "comma", "dan", "jianyi", "zengjia", "shuju">> >>
    /\ last.value = [action |-> "publish", candidate |-> 1, direction |-> NoText,
                     feedback |-> ParsedBody[1]]

(***************************************************************************)
(* Properties of the loop's error handling.                                *)
(***************************************************************************)
\* the step in which handling the next message of the batch raised
HandlingRaises ==
    /\ pc = "process"
    /\ batch # << >>
    /\ last'.op = "loop_exception"

\* C19: when handling a message raises, the loop goes on and the messages
\* fetched with it are still to be handled, in order
C19_FailureIsolated ==
    [][(HandlingRaises /\ Len(batch) > 1) =>
          /\ pc' = "process"
          /\ batch' = Tail(batch)]_vars

\* the step of a poll that failed: there was unread mail and none was fetched
FetchFails ==
    /\ pc = "sleep"
    /\ pc' = "process"
    /\ Unseen(mailbox, 1) # << >>
    /\ mailbox' = mailbox

\* C20: a poll whose fetch failed does not return the empty list, which is
\* what a successful poll of a mailbox without unread mail returns
C20_FetchFailureDistinct ==
    [][FetchFails => batch' # check_new_emails(<< >>, TRUE)]_vars

\* the step in which the stop signal ends the loop
LoopExits == pc \in {"process", "sleep"} /\ pc' = "stopped"

\* C21: the loop exits on the stop signal only when no fetched message is
\* still waiting to be processed
C21_StopAfterInFlight ==
    [][LoopExits => batch = << >>]_vars

\* a line the feedback extraction collects: a numbered item or a suggestion
FeedbackLine(line) ==
    IsNumberedItem(Strip(line)) \/ ContainsAny(Strip(line), SuggestKw)

\* C26: whatever action is matched, every line of the body that starts with a
\* numbered-list marker or carries a suggestion token is part of the feedback
\* of the parsed instruction
C26_FeedbackForEveryAction ==
    Parsed("parse_instruction") =>
        \A i \in 1..Len(ParsedBody) :
            FeedbackLine(ParsedBody[i]) =>
                /\ last.value.feedback # NoText
                /\ IsRunOf(Strip(ParsedBody[i]), last.value.feedback)

ColonLike == {"fwcolon", ":"}

\* the text after the first colon-like separator of a line, trimmed
AfterFirstColon(line) ==
    LET ps == {p \in 1..Len(line) : line[p] \in ColonLike}
    IN  IF ps = {} THEN Strip(line)
        ELSE Strip(SubSeq(line, (CHOOSE p \in ps : \A r \in ps : p <= r) + 1,
                          Len(line)))

\* the lines of a body that carry a direction token
DirectionLines(body) ==
    {i \in 1..Len(body) : ContainsAny(body[i], DirectionLineKw)}

\* C27: a regenerate instruction has a direction exactly when the body has a
\* line with a direction token (direction, focus, emphasis), and the direction
\* is the trimmed text after the first colon-like separator of the first such
\* line
C27_DirectionIffToken ==
    (Parsed("parse_instruction") /\ last.value.action = "regenerate") =>
        LET ls == DirectionLines(ParsedBody)
        IN  /\ (last.value.direction # NoText) <=> (ls # {})
            /\ ls # {} =>
                  last.value.direction =
                      AfterFirstColon(ParsedBody[CHOOSE i \in ls : \A r \in ls : i <= r])

\* C30: parse_reply gives reject before revise before select before None, the
\* candidate is the leftmost selection letter whatever the action is (None
\* without one), and the feedback is the stripped body
C30_ReplyPriority ==
    Parsed("parse_reply") =>
        LET toks == Flatten(ParsedBody)
            ps == ChoiceMatches(toks)
            r == last.value
        IN  /\ ContainsAny(toks, RejectKw) => r.action = "reject"
            /\ (~ContainsAny(toks, RejectKw) /\ ContainsAny(toks, ReviseKw)) =>
                  r.action = "revise"
            /\ (~ContainsAny(toks, RejectKw \cup ReviseKw) /\ ps # {}) =>
                  r.action = "select"
            /\ (~ContainsAny(toks, RejectKw \cup ReviseKw) /\ ps = {}) =>
                  r.action = None
            /\ r.candidate = IF ps = {} THEN None
                             ELSE ChoiceLetter(toks[CHOOSE p \in ps :
                                                      \A q \in ps : p <= q])
            /\ r.feedback = Strip(toks)

\* "choose B" followed by a line with a rejection token was parsed: reject,
\* carrying the letter B
C30_Witness ==
    /\ Parsed("parse_reply")
    /\ ParsedBody = << <<"xuanB">>, <<" ", "1", ".", "buyao", "gushi">> >>
    /\ last.value.action = "reject"
    /\ last.value.candidate = "B"

\* C25: a process killed while it saves the review state leaves the state
\* file as it was or holding the complete new state
C25_CrashConsistent ==
    [][CrashInSave => disk' \in {disk, save_state(last'.value)}]_vars

(***************************************************************************)
(* Properties of the generation pipelines.                                 *)
(***************************************************************************)
PipelineRan == last'.op \in {"workflow", "run_v3"}

\* C22: the articles table holds at most one row, one cycle, per date
C22_OneCyclePerDate == \A d \in Days : articles[d] <= 1

\* C23: a pipeline run in which generation raises returns False, leaves the
\* candidate files and the article rows as they were, notifies nobody and
\* leaves the review state file as it was
C23_GenerationFailureAborts ==
    [][(PipelineRan /\ last'.log = "failed_generation") =>
          /\ last'.value = FALSE
          /\ files' = files
          /\ articles' = articles
          /\ last'.notified = "none"
          /\ disk' = disk]_vars

\* generation failed in a run on a day that has a stored cycle and a waiting
\* request
C23_Witness ==
    /\ last.op \in {"workflow", "run_v3"}
    /\ last.log = "failed_generation"
    /\ files[Today] # << >>
    /\ articles[Today] > 0
    /\ Waiting(load_state(disk), Today)

\* C24: a regeneration requested for date d that succeeds stores a new cycle
\* under d: the article row and the candidate files of d
C24_RegenerateSameDate ==
    [][\A d \in Days, in \in RegenerateInputs :
          (ProcessReview(d, "regenerate", 1, in) /\ last'.value = TRUE) =>
              /\ articles'[d] = articles[d] + 1
              /\ files'[d] = in.candidates]_vars

\* C28: a pipeline run does not run the publisher
C28_NoPublishBeforeReply ==
    [][PipelineRan => publisher' = publisher]_vars

\* C29: when a run of ContentPipeline has recorded its article as published,
\* the publisher run of that run uploaded the article
C29_PublishedOnlyIfUploaded ==
    (/\ last.op = "run_v1"
     /\ last.value = TRUE
     /\ memory.articles[Len(memory.articles)].status = "published") =>
        publisher.last.outcome = "uploaded"

====
